---------------------------- MODULE Spec2Model ----------------------------
(***************************************************************************)
(* Model of the vuln-list-tuxcare tools:                                   *)
(*   cve_converter.py  parse_os_name, create_json_files                    *)
(*   get-cve.py        find_cve_file, get_cve_info, main                   *)
(*                                                                         *)
(* Python strings are sequences of atoms (TLA+ strings): "CentOS Stream"   *)
(* is <<"CentOS", " ", "Stream">>, the empty string is <<>>, and string    *)
(* concatenation is \o.  The atoms used are never concatenations of one    *)
(* another, so two Python strings are equal exactly when their atom        *)
(* sequences are.  Python indexes from 0, the sequences here from 1.       *)
(***************************************************************************)
EXTENDS Integers, Sequences, FiniteSets, TLC

VARIABLES
    \* ---- parse_os_name called on its own
    os_name,            \* the argument
    parsed,             \* what the call produced, NotCalled before it
    \* ---- create_json_files
    data,               \* the batch (list of entries)
    files,              \* file system: regular files, path -> content
    dirs,               \* file system: directories (set of paths)
    idx,                \* position of the for loop in data (1-based)
    created_files,      \* the set created_files
    file_count,
    unchanged_count,
    wpc,                \* "loop" | "returned"
    returned,           \* return value of the call
    run,                \* number of the call of create_json_files on data
    tree0,              \* [files, dirs] when the current call started
    prev_count,         \* return value of the previous call
    wlog,               \* history: writes and unchanged counts of this call
    out,                \* history: messages printed by this call
    expected,           \* history: path -> serialization of the first record for
                        \* the path in the last returned batch that held the path
    \* ---- get-cve.py
    argv,               \* sys.argv
    repo,               \* files below repo_root: relative path -> content
    repo_root,          \* directory of the script, a path
    pc,                 \* position in main / get_cve_info / find_cve_file
    cve_arg,            \* cve_id as passed by main
    source,             \* source as passed by main, None when absent
    cve_id,             \* find_cve_file: cve_id after upper()
    cve_year,           \* find_cve_file: year
    eco_left,           \* ghsa: entries of os.listdir not yet visited
    glob_left,          \* ghsa: files of the current glob not yet visited
    roots_left,         \* version-keyed roots not yet visited (a list)
    walk_left,          \* files of the current os.walk not yet visited
    probes,             \* history: relative paths looked at (exists, listdir, open)
    cve_file,           \* what find_cve_file returned (file_path), NoPath for None
    cve_data,           \* what get_cve_info returned, NoData for None
    exc,                \* the exception that ended the process, "none" if none
    exit_code,          \* what main returned
    stdout,             \* history: messages printed
    inv,                \* number of the invocation of the command
    prev                \* history: outcome and code of the previous invocation

wvars == <<data, files, dirs, idx, created_files, file_count, unchanged_count,
           wpc, returned, run, tree0, prev_count, wlog, out, expected>>
pvars == <<os_name, parsed>>
env == <<repo, repo_root>>
args == <<argv, cve_arg, source>>
scan == <<eco_left, glob_left, roots_left, walk_left>>
hist == <<inv, prev>>
lvars == <<env, args, scan, hist, pc, cve_id, cve_year, probes, cve_file, cve_data,
           exc, exit_code, stdout>>
vars == <<pvars, wvars, lvars>>

---------------------------------------------------------------------------
(* Bounds *)
MaxTokens == 4
MaxBatch == 3
MaxRuns == 2
MaxFiles == 3
MaxSessionFiles == 1
MaxInvocations == 2
MaxSeqBatch == 2
MaxCalls == 2

---------------------------------------------------------------------------
(* Python string helpers *)

Min(a, b) == IF a <= b THEN a ELSE b

\* s[:n]
str_prefix(s, n) == SubSeq(s, 1, Min(n, Len(s)))

RECURSIVE SplitOn(_, _, _, _)
SplitOn(s, sep, cur, acc) ==
    IF s = <<>> THEN Append(acc, cur)
    ELSE IF Head(s) = sep THEN SplitOn(Tail(s), sep, <<>>, Append(acc, cur))
    ELSE SplitOn(Tail(s), sep, Append(cur, Head(s)), acc)

\* s.split(sep): every piece, empty ones included
str_split_sep(s, sep) == SplitOn(s, sep, <<>>, <<>>)

\* s.split(): pieces between runs of whitespace, no empty piece
str_split(s) == SelectSeq(SplitOn(s, " ", <<>>, <<>>), LAMBDA t : t /= <<>>)

RECURSIVE JoinSp(_)
JoinSp(tokens) ==
    IF tokens = <<>> THEN <<>>
    ELSE IF Len(tokens) = 1 THEN Head(tokens)
    ELSE Head(tokens) \o <<" ">> \o JoinSp(Tail(tokens))

---------------------------------------------------------------------------
(* cve_converter.py: parse_os_name *)

NotCalled == [exc |-> "not called", distro |-> <<>>, version |-> <<>>, variant |-> <<>>]
Raised(e) == [exc |-> e, distro |-> <<>>, version |-> <<>>, variant |-> <<>>]
Returned(d, v, w) == [exc |-> "none", distro |-> d, version |-> v, variant |-> w]

\* lines 20-23: parts[2] (here parts[3]) is read without a length check
centos_stream(parts) ==
    IF Len(parts) < 3 THEN Raised("IndexError")
    ELSE Returned(parts[1], parts[2] \o parts[3],
                  IF Len(parts) > 3 THEN parts[4] ELSE <<>>)

\* lines 25-28; the distro is the string "OracleLinux"
oracle_linux(parts) ==
    Returned(<<"Oracle", "Linux">>,
             IF Len(parts) > 2 THEN parts[3] ELSE <<>>,
             IF Len(parts) > 3 THEN parts[4] ELSE <<>>)

\* lines 30-33: parts[0] (here parts[1]) is read without a length check
normal_case(parts) ==
    IF Len(parts) < 1 THEN Raised("IndexError")
    ELSE Returned(parts[1],
                  IF Len(parts) > 1 THEN parts[2] ELSE <<>>,
                  IF Len(parts) > 2 THEN parts[3] ELSE <<>>)

parse_os_name(name) ==
    LET parts == str_split(name) IN
    IF Len(parts) >= 2 /\ parts[1] = <<"CentOS">> /\ parts[2] = <<"Stream">>
    THEN centos_stream(parts)
    ELSE IF Len(parts) >= 2 /\ parts[1] = <<"Oracle">> /\ parts[2] = <<"Linux">>
    THEN oracle_linux(parts)
    ELSE normal_case(parts)

---------------------------------------------------------------------------
(* cve_converter.py: create_json_files *)

\* An entry is a Python dict in insertion order: a sequence of <<key, value>>
\* with distinct keys.
has_key(entry, k) == \E j \in 1..Len(entry) : entry[j][1] = k
get(entry, k) == entry[CHOOSE j \in 1..Len(entry) : entry[j][1] = k][2]

Quote(s) == <<"\"">> \o s \o <<"\"">>

RECURSIVE dumps_members(_, _)
dumps_members(entry, j) ==
    IF j > Len(entry) THEN <<>>
    ELSE <<"\n  ">> \o Quote(<<entry[j][1]>>) \o <<": ">> \o Quote(entry[j][2])
         \o (IF j < Len(entry) THEN <<",">> ELSE <<"\n">>)
         \o dumps_members(entry, j + 1)

\* json.dumps(entry, indent=2) of a dict of strings: members in insertion order
json_dumps(entry) ==
    IF entry = <<>> THEN <<"{}">> ELSE <<"{">> \o dumps_members(entry, 1) \o <<"}">>

\* os.path.join below base_dir: an empty component adds no path segment.  A
\* path is the sequence of its segments.  No atom holds "/", "." or "..".
os_path_join(components) == SelectSeq(components, LAMBDA c : c /= <<>>)

\* lines 65-68: the three subscripts, each raising KeyError on a missing key
missing_field(entry) ==
    ~ has_key(entry, "CVE") \/ ~ has_key(entry, "OS name")
        \/ ~ has_key(entry, "Last updated")

\* lines 74-77
dir_path_of(p, year) ==
    IF p.variant /= <<>>
    THEN os_path_join(<<<<"tuxcare">>, p.distro, p.version, p.variant, year>>)
    ELSE os_path_join(<<<<"tuxcare">>, p.distro, p.version, year>>)

\* line 82
file_path_of(dir_path, cve) == os_path_join(Append(dir_path, cve \o <<".json">>))

Prefixes(path) == {SubSeq(path, 1, k) : k \in 1..Len(path)}

\* os.makedirs(dir_path, exist_ok=True) raises when a segment of the path is
\* a regular file
makedirs_raises(fs, dir_path) == \E q \in Prefixes(dir_path) : q \in DOMAIN fs.files
makedirs(fs, dir_path) == [fs EXCEPT !.dirs = @ \cup Prefixes(dir_path)]

\* os.path.exists
path_exists(fs, path) == path \in DOMAIN fs.files \/ path \in fs.dirs

\* f.read() of an existing path in text mode, utf-8: raises on a directory and
\* on bytes that are not utf-8
Undecodable == <<"\\xff">>
read_raises(fs, path) == path \in fs.dirs \/ fs.files[path] = Undecodable

\* open(file_path, 'w') raises on a directory
write_raises(fs, path) == path \in fs.dirs
write_file(fs, path, content) ==
    [fs EXCEPT !.files = [q \in DOMAIN @ \cup {path} |->
                             IF q = path THEN content ELSE @[q]]]

\* The state of one call: the file system and the locals of create_json_files,
\* with the two history logs.
CallState ==
    [fs |-> [files |-> files, dirs |-> dirs], created_files |-> created_files,
     file_count |-> file_count, unchanged_count |-> unchanged_count,
     wlog |-> wlog, out |-> out]

\* lines 58-61: the locals at the start of a call on file system fs
call_start(fs) ==
    [fs |-> fs, created_files |-> {}, file_count |-> 0, unchanged_count |-> 0,
     wlog |-> <<>>, out |-> <<>>]

\* the skipped entry counted as an unchanged file
on_key_error_counted(st) ==
    [st EXCEPT !.out = Append(@, "Warning: Missing field"), !.unchanged_count = @ + 1]

\* lines 116-118: except KeyError
on_key_error(st) == [st EXCEPT !.out = Append(@, "Warning: Missing field")]

\* lines 119-121: except Exception
on_exception(st) == [st EXCEPT !.out = Append(@, "Error processing entry")]

\* created_files never consulted
already_created_never(file_path, created) == FALSE

\* line 85
already_created(file_path, created) == file_path \in created

\* the text read compared with the entry instead of its serialization: never equal
content_compared_to_entry(existing_content, new_content) == FALSE

\* line 98
content_unchanged(existing_content, new_content) == existing_content = new_content

\* lines 99-101
count_unchanged(st, file_path) ==
    [st EXCEPT !.created_files = @ \cup {file_path},
               !.unchanged_count = @ + 1,
               !.wlog = Append(@, [path |-> file_path, kind |-> "unchanged"])]

\* the written path not added to created_files
write_and_count_untracked(st, file_path, new_content) ==
    IF write_raises(st.fs, file_path) THEN on_exception(st)
    ELSE [st EXCEPT !.fs = write_file(@, file_path, new_content),
                    !.file_count = @ + 1,
                    !.wlog = Append(@, [path |-> file_path, kind |-> "write"])]

\* lines 106-115
write_and_count(st, file_path, new_content) ==
    IF write_raises(st.fs, file_path) THEN on_exception(st)
    ELSE [st EXCEPT !.fs = write_file(@, file_path, new_content),
                    !.created_files = @ \cup {file_path},
                    !.file_count = @ + 1,
                    !.wlog = Append(@, [path |-> file_path, kind |-> "write"]),
                    !.out = IF (st.file_count + 1 + st.unchanged_count) % 10 = 0
                            THEN Append(@, "Progress") ELSE @]

\* lines 91-111
compare_then_write(st, file_path, new_content) ==
    IF ~ path_exists(st.fs, file_path)
    THEN write_and_count(st, file_path, new_content)
    ELSE IF read_raises(st.fs, file_path)
    THEN write_and_count(
             [st EXCEPT !.out = Append(@, "Warning: Could not read existing file")],
             file_path, new_content)
    ELSE IF content_unchanged(st.fs.files[file_path], new_content)
    THEN count_unchanged(st, file_path)
    ELSE write_and_count(st, file_path, new_content)

\* lines 64-121: the body of the for loop for one entry
process_entry(entry, st) ==
    IF missing_field(entry) THEN on_key_error(st)
    ELSE LET cve == get(entry, "CVE")
             year == str_prefix(get(entry, "Last updated"), 4)
             p == parse_os_name(get(entry, "OS name"))
         IN  IF p.exc /= "none" THEN on_exception(st)
             ELSE LET dir_path == dir_path_of(p, year) IN
                  IF makedirs_raises(st.fs, dir_path) THEN on_exception(st)
                  ELSE LET st1 == [st EXCEPT !.fs = makedirs(@, dir_path)]
                           file_path == file_path_of(dir_path, cve)
                       IN  IF already_created(file_path, st1.created_files) THEN st1
                           ELSE compare_then_write(st1, file_path, json_dumps(entry))

\* lines 65-82: the path an entry is written to, for an entry that has the three
\* fields and an OS name parse_os_name accepts
routable(entry) ==
    ~ missing_field(entry) /\ parse_os_name(get(entry, "OS name")).exc = "none"
entry_file_path(entry) ==
    file_path_of(dir_path_of(parse_os_name(get(entry, "OS name")),
                             str_prefix(get(entry, "Last updated"), 4)),
                 get(entry, "CVE"))

RECURSIVE run_entries(_, _)
run_entries(entries, st) ==
    IF entries = <<>> THEN st
    ELSE run_entries(Tail(entries), process_entry(Head(entries), st))

\* lines 51-124: the whole call
create_json_files(entries, fs) == run_entries(entries, call_start(fs))

---------------------------------------------------------------------------
(* Inputs of create_json_files *)

Entry(cve, os, updated) ==
    <<<<"CVE", cve>>, <<"OS name", os>>, <<"Last updated", updated>>>>

Cve1 == <<"CVE-2025-21785">>
Jan == <<"2", "0", "2", "5", "-", "0", "1">>
Feb == <<"2", "0", "2", "5", "-", "0", "2">>
AlmaEsu == <<"AlmaLinux", " ", "9", " ", "ESU">>

EntryAlmaJan == Entry(Cve1, AlmaEsu, Jan)
EntryAlmaFeb == Entry(Cve1, AlmaEsu, Feb)

SampleEntries ==
    { EntryAlmaJan,
      EntryAlmaFeb,
      Entry(Cve1, <<"CentOS", " ", "Stream", " ", "8", " ", "ELS">>, Jan),
      Entry(Cve1, <<"CentOS", " ", "Stream", "8", " ", "ELS">>, Jan),
      Entry(Cve1, <<"CentOS", " ", "Stream">>, Jan),
      Entry(Cve1, <<"AlmaLinux">>, <<"9">>),
      Entry(Cve1, <<"AlmaLinux", " ", "9", " ">> \o Cve1 \o <<".json">>, Jan),
      <<<<"OS name", AlmaEsu>>, <<"Last updated", Jan>>>>,
      <<<<"CVE", Cve1>>, <<"OS name", AlmaEsu>>>> }

Batches == UNION {[1..n -> SampleEntries] : n \in 0..MaxBatch}

\* the batches of a sequence of calls: two differing records for one path, a
\* record for another path, a record parse_os_name rejects, a record lacking a
\* field
SeqEntries ==
    { EntryAlmaJan,
      EntryAlmaFeb,
      Entry(Cve1, <<"CentOS", " ", "Stream", " ", "8", " ", "ELS">>, Jan),
      Entry(Cve1, <<"CentOS", " ", "Stream">>, Jan),
      <<<<"CVE", Cve1>>, <<"OS name", AlmaEsu>>>> }

SeqBatches == UNION {[1..n -> SeqEntries] : n \in 0..MaxSeqBatch}

AlmaPath ==
    <<<<"tuxcare">>, <<"AlmaLinux">>, <<"9">>, <<"ESU">>,
      <<"2", "0", "2", "5">>, Cve1 \o <<".json">>>>

EmptyTree == [files |-> <<>>, dirs |-> {}]
TreeWithFile(path, content) ==
    [files |-> [q \in {path} |-> content],
     dirs |-> Prefixes(path) \ {path}]

InitialTrees ==
    { EmptyTree,
      TreeWithFile(AlmaPath, json_dumps(EntryAlmaJan)),
      TreeWithFile(AlmaPath, <<"{}">>),
      TreeWithFile(AlmaPath, Undecodable),
      [files |-> <<>>, dirs |-> Prefixes(AlmaPath)] }

\* the same, and a tree with a regular file where the batch needs a directory
SeqTrees ==
    InitialTrees \cup {TreeWithFile(SubSeq(AlmaPath, 1, 4), <<"{}">>)}

\* What the batches called so far say each path holds: the record that comes
\* first for a path in a batch, for the last batch with a record for the path.
batch_paths(batch) ==
    {entry_file_path(batch[k]) : k \in {j \in DOMAIN batch : routable(batch[j])}}
first_index(batch, path) ==
    CHOOSE k \in DOMAIN batch :
        /\ routable(batch[k]) /\ entry_file_path(batch[k]) = path
        /\ \A j \in 1..(k - 1) :
              ~ (routable(batch[j]) /\ entry_file_path(batch[j]) = path)
expected_after(exp, batch) ==
    [q \in DOMAIN exp \cup batch_paths(batch) |->
        IF q \in batch_paths(batch)
        THEN json_dumps(batch[first_index(batch, q)])
        ELSE exp[q]]

---------------------------------------------------------------------------
(* create_json_files called on a batch, and again on the same batch *)

SetCallState(st) ==
    /\ files' = st.fs.files
    /\ dirs' = st.fs.dirs
    /\ created_files' = st.created_files
    /\ file_count' = st.file_count
    /\ unchanged_count' = st.unchanged_count
    /\ wlog' = st.wlog
    /\ out' = st.out

\* one iteration of the for loop (lines 63-121)
LoopBody ==
    /\ wpc = "loop"
    /\ idx <= Len(data)
    /\ SetCallState(process_entry(data[idx], CallState))
    /\ idx' = idx + 1
    /\ UNCHANGED <<data, wpc, returned, run, tree0, prev_count, expected, pvars, lvars>>

\* lines 123-124
Return ==
    /\ wpc = "loop"
    /\ idx > Len(data)
    /\ wpc' = "returned"
    /\ returned' = file_count
    /\ out' = Append(out, "Completed")
    /\ expected' = expected_after(expected, data)
    /\ UNCHANGED <<data, files, dirs, idx, created_files, file_count,
                   unchanged_count, run, tree0, prev_count, wlog, pvars, lvars>>

\* the next call on the same batch, nothing else touching the tree in between
CallAgain ==
    /\ wpc = "returned"
    /\ run < MaxRuns
    /\ run' = run + 1
    /\ prev_count' = returned
    /\ tree0' = [files |-> files, dirs |-> dirs]
    /\ SetCallState(call_start([files |-> files, dirs |-> dirs]))
    /\ idx' = 1
    /\ wpc' = "loop"
    /\ returned' = 0
    /\ UNCHANGED <<data, expected, pvars, lvars>>

\* a later call, on any batch, nothing else touching the tree in between
CallNext ==
    /\ wpc = "returned"
    /\ run < MaxCalls
    /\ \E batch \in SeqBatches : data' = batch
    /\ run' = run + 1
    /\ prev_count' = returned
    /\ tree0' = [files |-> files, dirs |-> dirs]
    /\ SetCallState(call_start([files |-> files, dirs |-> dirs]))
    /\ idx' = 1
    /\ wpc' = "loop"
    /\ returned' = 0
    /\ UNCHANGED <<expected, pvars, lvars>>

---------------------------------------------------------------------------
(* parse_os_name called on its own *)

Tokens ==
    { <<"CentOS">>, <<"Stream">>, <<"Oracle">>, <<"Linux">>, <<"AlmaLinux">>,
      <<"8">>, <<"ELS">> }

TokenLists == UNION {[1..n -> Tokens] : n \in 0..MaxTokens}

\* Names with single blanks, and the same with a blank in front
OsNames ==
    {JoinSp(ts) : ts \in TokenLists} \cup {<<" ">> \o JoinSp(ts) : ts \in TokenLists}

CallParse ==
    /\ parsed = NotCalled
    /\ parsed' = parse_os_name(os_name)
    /\ UNCHANGED <<os_name, wvars, lvars>>

---------------------------------------------------------------------------
(* get-cve.py: Python values read from JSON files *)

\* A JSON value: t is its type; s the text of a string; keys and items the keys
\* and values of a dict in order; items the elements of a list.
JNull == [t |-> "null", s |-> <<>>, keys |-> <<>>, items |-> <<>>]
JNum == [t |-> "num", s |-> <<>>, keys |-> <<>>, items |-> <<>>]
JStr(text) == [t |-> "str", s |-> text, keys |-> <<>>, items |-> <<>>]
JList(elems) == [t |-> "list", s |-> <<>>, keys |-> <<>>, items |-> elems]
JDict(ks, vs) == [t |-> "dict", s |-> <<>>, keys |-> ks, items |-> vs]

\* What is in a file: JSON text of a value, text that is not JSON
\* (json.JSONDecodeError), or bytes that do not decode (UnicodeDecodeError)
JsonFile(v) == [kind |-> "json", value |-> v]
InvalidJson == [kind |-> "invalid", value |-> JNull]
BinaryFile == [kind |-> "binary", value |-> JNull]

IsSubstr(k, text) ==
    \E i \in 0..(Len(text) - Len(k)) : SubSeq(text, i + 1, i + Len(k)) = k

\* k in j, for a string k: "True", "False" or "TypeError"
py_in(k, j) ==
    IF j.t = "dict" THEN (IF \E n \in DOMAIN j.keys : j.keys[n] = k THEN "True" ELSE "False")
    ELSE IF j.t = "list" THEN (IF \E n \in DOMAIN j.items : j.items[n] = JStr(k)
                               THEN "True" ELSE "False")
    ELSE IF j.t = "str" THEN (IF IsSubstr(k, j.s) THEN "True" ELSE "False")
    ELSE "TypeError"

\* d[k] and d.get(k) of a dict d
dict_at(d, k) == d.items[CHOOSE n \in DOMAIN d.keys : d.keys[n] = k]
dict_get(d, k) == IF py_in(k, d) = "True" THEN dict_at(d, k) ELSE JNull

\* the elements a for loop over j visits (j a dict, list or str)
py_iter(j) ==
    IF j.t = "dict" THEN [n \in DOMAIN j.keys |-> JStr(j.keys[n])]
    ELSE IF j.t = "str" THEN [n \in DOMAIN j.s |-> JStr(<<j.s[n]>>)]
    ELSE j.items

\* lines 63-65: the loop over the identifiers, in order
RECURSIVE identifiers_scan(_, _, _)
identifiers_scan(elems, n, cve) ==
    IF n > Len(elems) THEN "nomatch"
    ELSE IF elems[n].t /= "dict" THEN "AttributeError"
    ELSE IF /\ dict_get(elems[n], <<"Type">>) = JStr(<<"CVE">>)
            /\ dict_get(elems[n], <<"Value">>) = JStr(cve)
    THEN "match"
    ELSE identifiers_scan(elems, n + 1, cve)

\* lines 58-67: one ghsa file opened and inspected.  "match": return json_file;
\* "nomatch": next file; "warn": caught by except (json.JSONDecodeError, IOError),
\* warning printed, next file; anything else: the exception that leaves
\* find_cve_file.
ghsa_inspect(content, cve) ==
    IF content.kind = "invalid" THEN "warn"
    ELSE IF content.kind = "binary" THEN "UnicodeDecodeError"
    ELSE LET d == content.value
             a == py_in(<<"Advisory">>, d)
         IN  IF a /= "True" THEN (IF a = "False" THEN "nomatch" ELSE a)
             ELSE IF d.t /= "dict" THEN "TypeError"
             ELSE LET adv == dict_at(d, <<"Advisory">>)
                      b == py_in(<<"Identifiers">>, adv)
                  IN  IF b /= "True" THEN (IF b = "False" THEN "nomatch" ELSE b)
                      ELSE IF adv.t /= "dict" THEN "TypeError"
                      ELSE LET ids == dict_at(adv, <<"Identifiers">>) IN
                           IF ids.t \notin {"dict", "list", "str"} THEN "TypeError"
                           ELSE identifiers_scan(py_iter(ids), 1, cve)

\* lines 88-90: the loop over data["secfixes"].items(), in order
RECURSIVE secfixes_scan(_, _, _)
secfixes_scan(vals, n, cve) ==
    IF n > Len(vals) THEN "nomatch"
    ELSE LET m == py_in(cve, vals[n]) IN
         IF m = "True" THEN "match"
         ELSE IF m = "False" THEN secfixes_scan(vals, n + 1, cve)
         ELSE m

\* lines 83-94: one file of a version-keyed root opened and inspected
versioned_inspect(content, cve) ==
    IF content.kind = "invalid" THEN "warn"
    ELSE IF content.kind = "binary" THEN "UnicodeDecodeError"
    ELSE LET d == content.value
             a == py_in(<<"secfixes">>, d)
         IN  IF a /= "True" THEN (IF a = "False" THEN "nomatch" ELSE a)
             ELSE IF d.t /= "dict" THEN "TypeError"
             ELSE LET sf == dict_at(d, <<"secfixes">>) IN
                  IF sf.t /= "dict" THEN "AttributeError"
                  ELSE secfixes_scan(sf.items, 1, cve)

---------------------------------------------------------------------------
(* get-cve.py: strings, paths and the repository tree *)

None == <<"None">>
NoPath == <<>>
NoData == [loaded |-> FALSE, label |-> <<>>, path |-> NoPath]

UpperAtom(a) ==
    CASE a = "cve" -> "CVE" [] a = "not" -> "NOT" [] a = "a" -> "A"
      [] a = "nvd" -> "NVD" [] a = "ghsa" -> "GHSA" [] OTHER -> a
LowerAtom(a) ==
    CASE a = "CVE" -> "cve" [] a = "NVD" -> "nvd" [] a = "GHSA" -> "ghsa" [] OTHER -> a
str_upper(text) == [n \in DOMAIN text |-> UpperAtom(text[n])]
str_lower(text) == [n \in DOMAIN text |-> LowerAtom(text[n])]

\* line 18: cve_id.startswith("CVE-")
starts_with_cve(text) == Len(text) >= 2 /\ text[1] = "CVE" /\ text[2] = "-"

\* file.endswith('.json'), and the *.json of the glob pattern
ends_with_json(name) == name /= <<>> /\ name[Len(name)] = ".json"

IsPrefix(q, f) == Len(q) <= Len(f) /\ SubSeq(f, 1, Len(q)) = q

\* os.path.exists and os.path.isdir of repo_root/q: a directory exists when a
\* file lies below it
repo_exists(tree, q) == \E f \in DOMAIN tree : IsPrefix(q, f)
repo_isdir(tree, q) == \E f \in DOMAIN tree : IsPrefix(q, f) /\ f /= q

\* os.listdir(repo_root/q)
repo_listdir(tree, q) ==
    {f[Len(q) + 1] : f \in {g \in DOMAIN tree : IsPrefix(q, g) /\ g /= q}}

\* glob(repo_root/q/**/*.json, recursive=True): the .json files at any depth
glob_json(tree, q) ==
    {f \in DOMAIN tree : IsPrefix(q, f) /\ f /= q /\ ends_with_json(f[Len(f)])}

\* the files os.walk(repo_root/q) lists
walk_files(tree, q) == {f \in DOMAIN tree : IsPrefix(q, f) /\ f /= q}

\* line 70, line 75: the version-keyed roots in order
OtherSources ==
    <<<<"alpine">>, <<"amazon">>, <<"oracle">>, <<"photon">>, <<"redhat">>, <<"suse">>>>

SeqRange(q) == {q[n] : n \in DOMAIN q}

\* lines 32, 38, 44, 50: source is None or source.lower() == name
wanted(src, name) == src = None \/ str_lower(src) = name

\* lines 33, 39, 45: os.path.join(repo_root, name, year, f"{cve_id}.json"),
\* below repo_root
direct_path(name, yr, cve) == os_path_join(<<name, yr, cve \o <<".json">>>>)

---------------------------------------------------------------------------
(* get-cve.py: get_cve_info's label *)

\* name in file_path: the name is a substring of the path string.  Root names
\* occur in the atoms only whole, and cannot span a "/".
path_contains(path, name) ==
    \E n \in DOMAIN path : \E k \in DOMAIN path[n] : <<path[n][k]>> = name

\* lines 115-134: the names tested, in order, and the label of each
LabelOrder ==
    <<<<"nvd">>, <<"ghsa">>, <<"alpine">>, <<"debian">>, <<"ubuntu">>, <<"amazon">>,
      <<"oracle">>, <<"photon">>, <<"redhat">>, <<"suse">>>>

label_of(name, path) ==
    CASE name = <<"nvd">> -> <<"NVD (National Vulnerability Database)">>
      [] name = <<"ghsa">> -> <<"GHSA (GitHub Security Advisory)">>
      [] name = <<"alpine">> ->
            <<"Alpine Linux (">> \o path[Len(path) - 2] \o <<"/">>
                \o path[Len(path) - 1] \o <<")">>
      [] name = <<"debian">> -> <<"Debian Linux">>
      [] name = <<"ubuntu">> -> <<"Ubuntu Linux">>
      [] name = <<"amazon">> -> <<"Amazon Linux">>
      [] name = <<"oracle">> -> <<"Oracle Linux">>
      [] name = <<"photon">> -> <<"VMware Photon OS">>
      [] name = <<"redhat">> -> <<"Red Hat Linux">>
      [] name = <<"suse">> -> <<"SUSE Linux">>
      [] OTHER -> <<"Unknown Source">>

RECURSIVE label_chain(_, _)
label_chain(path, n) ==
    IF n > Len(LabelOrder) THEN <<"Unknown Source">>
    ELSE IF path_contains(path, LabelOrder[n]) THEN label_of(LabelOrder[n], path)
    ELSE label_chain(path, n + 1)

\* lines 115-136
provenance_label(path) == label_chain(path, 1)

\* the bug of returning success whatever was loaded
main_exit_code_always_zero(loaded_data) == 0

\* lines 194-197
main_exit_code(loaded_data) == IF loaded_data.loaded THEN 0 ELSE 1

---------------------------------------------------------------------------
(* Inputs of get-cve.py: command lines and repository trees *)

Id1664 == <<"CVE", "-", "2022", "-", "1664">>

CveArgs ==
    { Id1664,
      <<"cve", "-", "2022", "-", "1664">>,
      <<"CVE", "-", "2099", "-", "0001">>,
      <<"CVE", "-", "2022">>,
      <<"CVE", "-">>,
      <<"not", "-", "a", "-", "cve">> }

SourceArgs == { <<"nvd">>, <<"NVD">>, <<"ghsa">>, <<"alpine">>, <<"bogus">> }

Prog == <<"get-cve.py">>

Argvs ==
    {<<Prog>>, <<Prog, <<"--help">>>>}
        \cup {<<Prog, c>> : c \in CveArgs}
        \cup {<<Prog, c, <<"--source">>, src>> : c \in CveArgs, src \in SourceArgs}

SessionArgvs ==
    {<<Prog>>, <<Prog, <<"--help">>>>}
        \cup {<<Prog, c>> : c \in {Id1664, <<"CVE", "-", "2099", "-", "0001">>,
                                   <<"not", "-", "a", "-", "cve">>}}
        \cup {<<Prog, Id1664, <<"--source">>, <<"nvd">>>>}

NvdRecord == JsonFile(JDict(<<<<"id">>>>, <<JStr(Id1664)>>))

\* {"Advisory": {"Identifiers": [{"Type": "GHSA", ...}, {"Type": "CVE", "Value": cve}]}}
Identifier(type, value) == JDict(<<<<"Type">>, <<"Value">>>>, <<JStr(type), JStr(value)>>)
Advisory(cve) ==
    JsonFile(JDict(<<<<"Advisory">>>>,
        <<JDict(<<<<"Identifiers">>>>,
            <<JList(<<Identifier(<<"GHSA">>, <<"GHSA-1">>), Identifier(<<"CVE">>, cve)>>)>>)>>))

\* {"Advisory": null}
AdvisoryNull == JsonFile(JDict(<<<<"Advisory">>>>, <<JNull>>))

\* {"secfixes": {"1.2-r0": ["CVE-2021-0001", cve]}}
Secfixes(cve) ==
    JsonFile(JDict(<<<<"secfixes">>>>,
        <<JDict(<<<<"1.2-r0">>>>, <<JList(<<JStr(<<"CVE-2021-0001">>), JStr(cve)>>)>>)>>))

\* {"secfixes": null}
SecfixesNull == JsonFile(JDict(<<<<"secfixes">>>>, <<JNull>>))

NvdFile == direct_path(<<"nvd">>, <<"2022">>, Id1664)
UbuntuFile == direct_path(<<"ubuntu">>, <<"2022">>, Id1664)
DebianFile == direct_path(<<"debian">>, <<"2022">>, Id1664)
GhsaPipFile == <<<<"ghsa">>, <<"pip">>, <<"nvd", "lib">>, <<"GHSA-1", ".json">>>>
GhsaNpmFile == <<<<"ghsa">>, <<"npm">>, <<"pkg">>, <<"GHSA-2", ".json">>>>
GhsaTopFile == <<<<"ghsa">>, <<"GHSA-3", ".json">>>>
AlpinePkgFile == <<<<"alpine">>, <<"3.12">>, <<"main">>, <<"pkg", ".json">>>>
AlpineBadFile == <<<<"alpine">>, <<"3.12">>, <<"main">>, <<"bad", ".json">>>>
AlpineYamlFile == <<<<"alpine">>, <<"3.12">>, <<"main">>, <<"pkg", ".yaml">>>>
SuseFile == <<<<"suse">>, <<"15">>, <<"pkg", ".json">>>>

Candidate(path, content) == [path |-> path, content |-> content]

Candidates ==
    { Candidate(NvdFile, NvdRecord),
      Candidate(NvdFile, InvalidJson),
      Candidate(UbuntuFile, NvdRecord),
      Candidate(UbuntuFile, BinaryFile),
      Candidate(DebianFile, NvdRecord),
      Candidate(DebianFile, JsonFile(JList(<<>>))),
      Candidate(GhsaPipFile, Advisory(Id1664)),
      Candidate(GhsaNpmFile, Advisory(Id1664)),
      Candidate(GhsaNpmFile, InvalidJson),
      Candidate(GhsaNpmFile, AdvisoryNull),
      Candidate(GhsaTopFile, Advisory(Id1664)),
      Candidate(AlpinePkgFile, Secfixes(Id1664)),
      Candidate(AlpineBadFile, SecfixesNull),
      Candidate(AlpineYamlFile, Secfixes(Id1664)),
      Candidate(SuseFile, Secfixes(Id1664)) }

TreeOf(cs) == [f \in {c.path : c \in cs} |-> (CHOOSE c \in cs : c.path = f).content]

Trees(limit) ==
    {TreeOf(cs) : cs \in {x \in SUBSET Candidates :
                             /\ Cardinality(x) <= limit
                             /\ \A c, d \in x : c.path = d.path => c = d}}

RepoRoots == { <<<<"srv">>, <<"vuln-list">>>>, <<<<"srv">>, <<"nvd", "-mirror">>>> }

---------------------------------------------------------------------------
(* get-cve.py: main, get_cve_info, find_cve_file *)

Say(msg) == stdout' = Append(stdout, msg)

\* lines 180-193
Main ==
    /\ pc = "main"
    /\ IF Len(argv) < 2 \/ \E n \in DOMAIN argv : argv[n] = <<"--help">>
       THEN /\ Say("help")
            /\ exit_code' = IF \E n \in DOMAIN argv : argv[n] = <<"--help">> THEN 0 ELSE 1
            /\ pc' = "done"
            /\ UNCHANGED <<cve_arg, source>>
       ELSE /\ cve_arg' = argv[2]
            /\ source' = IF Len(argv) > 2 /\ argv[3] = <<"--source">> /\ Len(argv) > 3
                         THEN argv[4] ELSE None
            /\ pc' = "find"
            /\ UNCHANGED <<stdout, exit_code>>
    /\ UNCHANGED <<env, argv, scan, hist, cve_id, cve_year, probes, cve_file,
                   cve_data, exc, pvars, wvars>>

\* lines 17-27
Validate ==
    /\ pc = "find"
    /\ cve_id' = str_upper(cve_arg)
    /\ IF ~ starts_with_cve(cve_id')
       THEN /\ Say("Error: Invalid CVE ID format")
            /\ cve_file' = NoPath
            /\ pc' = "got"
            /\ UNCHANGED cve_year
       ELSE LET parts == str_split_sep(cve_id', "-") IN
            IF Len(parts) < 2
            THEN /\ Say("Error: Invalid CVE ID format")
                 /\ cve_file' = NoPath
                 /\ pc' = "got"
                 /\ UNCHANGED cve_year
            ELSE /\ cve_year' = parts[2]
                 /\ pc' = "nvd"
                 /\ UNCHANGED <<stdout, cve_file>>
    /\ UNCHANGED <<env, args, scan, hist, probes, cve_data, exc, exit_code,
                   pvars, wvars>>

\* lines 32-35, 38-41, 44-47: one direct-keyed root
check_direct(name, next) ==
    /\ IF wanted(source, name)
       THEN LET path == direct_path(name, cve_year, cve_id) IN
            /\ probes' = probes \cup {path}
            /\ IF repo_exists(repo, path)
               THEN cve_file' = repo_root \o path /\ pc' = "got"
               ELSE cve_file' = cve_file /\ pc' = next
       ELSE UNCHANGED <<probes, cve_file>> /\ pc' = next
    /\ UNCHANGED <<env, args, scan, hist, cve_id, cve_year, cve_data, exc,
                   exit_code, stdout, pvars, wvars>>

CheckNvd == pc = "nvd" /\ check_direct(<<"nvd">>, "ubuntu")
CheckUbuntu == pc = "ubuntu" /\ check_direct(<<"ubuntu">>, "debian")
CheckDebian == pc = "debian" /\ check_direct(<<"debian">>, "ghsa")

\* lines 50-53
EnterGhsa ==
    /\ pc = "ghsa"
    /\ IF wanted(source, <<"ghsa">>)
       THEN /\ probes' = probes \cup {<<<<"ghsa">>>>}
            /\ IF repo_exists(repo, <<<<"ghsa">>>>)
               THEN eco_left' = repo_listdir(repo, <<<<"ghsa">>>>) /\ pc' = "ghsa_eco"
               ELSE eco_left' = eco_left /\ pc' = "others"
       ELSE UNCHANGED <<probes, eco_left>> /\ pc' = "others"
    /\ UNCHANGED <<env, args, glob_left, roots_left, walk_left, hist, cve_id,
                   cve_year, cve_file, cve_data, exc, exit_code, stdout,
                   pvars, wvars>>

\* lines 53-57: the next entry of ghsa/, in the order os.listdir gives (any)
NextEcosystem ==
    /\ pc = "ghsa_eco"
    /\ IF eco_left = {}
       THEN pc' = "others" /\ UNCHANGED <<eco_left, glob_left, probes>>
       ELSE \E e \in eco_left :
               /\ eco_left' = eco_left \ {e}
               /\ probes' = probes \cup {<<<<"ghsa">>, e>>}
               /\ IF repo_isdir(repo, <<<<"ghsa">>, e>>)
                  THEN glob_left' = glob_json(repo, <<<<"ghsa">>, e>>) /\ pc' = "ghsa_file"
                  ELSE glob_left' = glob_left /\ pc' = pc
    /\ UNCHANGED <<env, args, roots_left, walk_left, hist, cve_id, cve_year,
                   cve_file, cve_data, exc, exit_code, stdout, pvars, wvars>>

\* what one inspected file does to the search: r is ghsa_inspect's or
\* versioned_inspect's answer for file f
after_inspect(r, f) ==
    /\ probes' = probes \cup {f}
    /\ IF r = "match" THEN cve_file' = repo_root \o f /\ pc' = "got"
       ELSE IF r \in {"nomatch", "warn"} THEN cve_file' = cve_file /\ pc' = pc
       ELSE cve_file' = cve_file /\ pc' = "crashed"
    /\ exc' = IF r \in {"match", "nomatch", "warn"} THEN exc ELSE r
    /\ stdout' = IF r = "warn" THEN Append(stdout, "Warning: Could not parse") ELSE stdout

\* lines 57-67: the next file of the glob, in the order glob gives (any)
InspectGhsaFile ==
    /\ pc = "ghsa_file"
    /\ IF glob_left = {}
       THEN pc' = "ghsa_eco" /\ UNCHANGED <<glob_left, probes, cve_file, exc, stdout>>
       ELSE \E f \in glob_left :
               /\ glob_left' = glob_left \ {f}
               /\ after_inspect(ghsa_inspect(repo[f], cve_id), f)
    /\ UNCHANGED <<env, args, eco_left, roots_left, walk_left, hist, cve_id,
                   cve_year, cve_data, exit_code, pvars, wvars>>

\* lines 70-75, and line 97 when the filter names none of these roots
EnterOthers ==
    /\ pc = "others"
    /\ IF source = None
       THEN roots_left' = OtherSources /\ pc' = "other_root" /\ UNCHANGED cve_file
       ELSE IF str_lower(source) \in SeqRange(OtherSources)
       THEN roots_left' = <<str_lower(source)>> /\ pc' = "other_root" /\ UNCHANGED cve_file
       ELSE roots_left' = roots_left /\ cve_file' = NoPath /\ pc' = "got"
    /\ UNCHANGED <<env, args, eco_left, glob_left, walk_left, hist, cve_id,
                   cve_year, probes, cve_data, exc, exit_code, stdout, pvars, wvars>>

\* lines 75-79, and line 97 after the last root
NextOtherRoot ==
    /\ pc = "other_root"
    /\ IF roots_left = <<>>
       THEN /\ cve_file' = NoPath
            /\ pc' = "got"
            /\ UNCHANGED <<roots_left, walk_left, probes>>
       ELSE /\ roots_left' = Tail(roots_left)
            /\ probes' = probes \cup {<<Head(roots_left)>>}
            /\ cve_file' = cve_file
            /\ IF repo_exists(repo, <<Head(roots_left)>>)
               THEN walk_left' = walk_files(repo, <<Head(roots_left)>>) /\ pc' = "other_file"
               ELSE walk_left' = walk_left /\ pc' = pc
    /\ UNCHANGED <<env, args, eco_left, glob_left, hist, cve_id, cve_year,
                   cve_data, exc, exit_code, stdout, pvars, wvars>>

\* lines 79-94: the next file of the walk, in the order os.walk gives (any:
\* in the trees used the files of a root lie in one directory)
InspectOtherFile ==
    /\ pc = "other_file"
    /\ IF walk_left = {}
       THEN pc' = "other_root" /\ UNCHANGED <<walk_left, probes, cve_file, exc, stdout>>
       ELSE \E f \in walk_left :
               /\ walk_left' = walk_left \ {f}
               /\ IF ends_with_json(f[Len(f)])
                  THEN after_inspect(versioned_inspect(repo[f], cve_id), f)
                  ELSE UNCHANGED <<probes, cve_file, exc, stdout, pc>>
    /\ UNCHANGED <<env, args, eco_left, glob_left, roots_left, hist, cve_id,
                   cve_year, cve_data, exit_code, pvars, wvars>>

\* the file at an absolute path returned by find_cve_file
RelPath(path) == SubSeq(path, Len(repo_root) + 1, Len(path))

\* lines 106-140
GetCveInfo ==
    /\ pc = "got"
    /\ IF cve_file = NoPath
       THEN /\ Say("Error: Could not find data")
            /\ pc' = "ret"
            /\ UNCHANGED <<cve_data, exc, probes>>
       ELSE LET content == repo[RelPath(cve_file)] IN
            /\ probes' = probes \cup {RelPath(cve_file)}
            /\ IF content.kind = "invalid"
               THEN /\ Say("Error: Could not read or parse")
                    /\ pc' = "ret"
                    /\ UNCHANGED <<cve_data, exc>>
               ELSE IF content.kind = "binary"
               THEN exc' = "UnicodeDecodeError" /\ pc' = "crashed"
                        /\ UNCHANGED <<cve_data, stdout>>
               ELSE IF content.value.t /= "dict"
               THEN exc' = "TypeError" /\ pc' = "crashed" /\ UNCHANGED <<cve_data, stdout>>
               ELSE /\ cve_data' = [loaded |-> TRUE, label |-> provenance_label(cve_file),
                                    path |-> cve_file]
                    /\ pc' = "ret"
                    /\ UNCHANGED <<exc, stdout>>
    /\ UNCHANGED <<env, args, scan, hist, cve_id, cve_year, cve_file, exit_code,
                   pvars, wvars>>

\* lines 193-197
MainReturn ==
    /\ pc = "ret"
    /\ exit_code' = main_exit_code(cve_data)
    /\ stdout' = IF cve_data.loaded THEN Append(stdout, "json") ELSE stdout
    /\ pc' = "done"
    /\ UNCHANGED <<env, args, scan, hist, cve_id, cve_year, probes, cve_file,
                   cve_data, exc, pvars, wvars>>

\* How an invocation that returned from main ended
HelpRun == Len(argv) < 2 \/ \E n \in DOMAIN argv : argv[n] = <<"--help">>
Outcome ==
    IF HelpRun THEN "help"
    ELSE IF cve_data.loaded THEN "success"
    ELSE IF cve_file /= NoPath THEN "load failed"
    ELSE IF ~ starts_with_cve(cve_id) THEN "invalid input"
    ELSE "not found"

LookupLocals(av, at) ==
    /\ argv = av
    /\ pc = at
    /\ cve_arg = <<>>
    /\ source = None
    /\ cve_id = <<>>
    /\ cve_year = <<>>
    /\ eco_left = {}
    /\ glob_left = {}
    /\ roots_left = <<>>
    /\ walk_left = {}
    /\ probes = {}
    /\ cve_file = NoPath
    /\ cve_data = NoData
    /\ exc = "none"
    /\ exit_code = -1
    /\ stdout = <<>>

LookupReset(av) ==
    /\ argv' = av
    /\ pc' = "main"
    /\ cve_arg' = <<>>
    /\ source' = None
    /\ cve_id' = <<>>
    /\ cve_year' = <<>>
    /\ eco_left' = {}
    /\ glob_left' = {}
    /\ roots_left' = <<>>
    /\ walk_left' = {}
    /\ probes' = {}
    /\ cve_file' = NoPath
    /\ cve_data' = NoData
    /\ exc' = "none"
    /\ exit_code' = -1
    /\ stdout' = <<>>

\* the command run again on the same repository
Restart ==
    /\ pc = "done"
    /\ inv < MaxInvocations
    /\ inv' = inv + 1
    /\ prev' = [outcome |-> Outcome, code |-> exit_code]
    /\ \E av \in SessionArgvs : LookupReset(av)
    /\ UNCHANGED <<env, pvars, wvars>>

---------------------------------------------------------------------------
(* Specifications *)

ParseIdle == os_name = <<>> /\ parsed = NotCalled

WriterIdle ==
    /\ data = <<>>
    /\ tree0 = EmptyTree
    /\ files = <<>>
    /\ dirs = {}
    /\ idx = 1
    /\ created_files = {}
    /\ file_count = 0
    /\ unchanged_count = 0
    /\ wpc = "idle"
    /\ returned = 0
    /\ run = 1
    /\ prev_count = 0
    /\ wlog = <<>>
    /\ out = <<>>
    /\ expected = <<>>

LookupIdle ==
    /\ repo = <<>>
    /\ repo_root = <<>>
    /\ inv = 1
    /\ prev = [outcome |-> "none", code |-> -1]
    /\ LookupLocals(<<>>, "idle")

InitWriter ==
    /\ data \in Batches
    /\ tree0 \in InitialTrees
    /\ files = tree0.files
    /\ dirs = tree0.dirs
    /\ idx = 1
    /\ created_files = {}
    /\ file_count = 0
    /\ unchanged_count = 0
    /\ wpc = "loop"
    /\ returned = 0
    /\ run = 1
    /\ prev_count = 0
    /\ wlog = <<>>
    /\ out = <<>>
    /\ expected = <<>>
    /\ ParseIdle
    /\ LookupIdle

NextWriter == LoopBody \/ Return \/ CallAgain

SpecWriter == InitWriter /\ [][NextWriter]_vars

InitBatches ==
    /\ data \in SeqBatches
    /\ tree0 \in SeqTrees
    /\ files = tree0.files
    /\ dirs = tree0.dirs
    /\ idx = 1
    /\ created_files = {}
    /\ file_count = 0
    /\ unchanged_count = 0
    /\ wpc = "loop"
    /\ returned = 0
    /\ run = 1
    /\ prev_count = 0
    /\ wlog = <<>>
    /\ out = <<>>
    /\ expected = <<>>
    /\ ParseIdle
    /\ LookupIdle

NextBatches == LoopBody \/ Return \/ CallNext

SpecBatches == InitBatches /\ [][NextBatches]_vars

InitParse ==
    /\ os_name \in OsNames
    /\ parsed = NotCalled
    /\ WriterIdle
    /\ LookupIdle

NextParse == CallParse

SpecParse == InitParse /\ [][NextParse]_vars

\* one invocation of get-cve.py
InitLookup ==
    /\ repo \in Trees(MaxFiles)
    /\ repo_root \in RepoRoots
    /\ inv = 1
    /\ prev = [outcome |-> "none", code |-> -1]
    /\ \E av \in Argvs : LookupLocals(av, "main")
    /\ ParseIdle
    /\ WriterIdle

NextLookup ==
    \/ Main
    \/ Validate
    \/ CheckNvd
    \/ CheckUbuntu
    \/ CheckDebian
    \/ EnterGhsa
    \/ NextEcosystem
    \/ InspectGhsaFile
    \/ EnterOthers
    \/ NextOtherRoot
    \/ InspectOtherFile
    \/ GetCveInfo
    \/ MainReturn

SpecLookup == InitLookup /\ [][NextLookup]_vars

\* invocations of get-cve.py one after the other on the same repository
InitSession ==
    /\ repo \in Trees(MaxSessionFiles)
    /\ repo_root = <<<<"srv">>, <<"vuln-list">>>>
    /\ inv = 1
    /\ prev = [outcome |-> "none", code |-> -1]
    /\ \E av \in SessionArgvs : LookupLocals(av, "main")
    /\ ParseIdle
    /\ WriterIdle

NextSession == NextLookup \/ Restart

SpecSession == InitSession /\ [][NextSession]_vars

---------------------------------------------------------------------------
(* Properties of create_json_files, checked under SpecWriter *)

\* C1: a second call of create_json_files on the same batch, with nothing else
\* touching the tree in between, writes no file (its count of created/updated
\* files stays 0) and every file keeps the content the first call left.
WriterIdempotent ==
    run >= 2 => /\ file_count = 0
                /\ returned = 0
                /\ files = tree0.files
                /\ \A k \in DOMAIN wlog : wlog[k].kind = "unchanged"

\* a second call has returned after a first call that wrote files, and found
\* files unchanged
WriterIdempotentWitness ==
    /\ wpc = "returned"
    /\ run = 2
    /\ prev_count >= 1
    /\ unchanged_count >= 1
    /\ Len(data) >= 2

Count(log, kind) == Cardinality({k \in DOMAIN log : log[k].kind = kind})

\* C4: within one call every path is written at most once and counted at most
\* once, as created or as unchanged; file_count and unchanged_count count
\* exactly those writes and skips, so a later record for a path does neither.
OncePerPath ==
    /\ \A a, b \in DOMAIN wlog : wlog[a].path = wlog[b].path => a = b
    /\ file_count = Count(wlog, "write")
    /\ unchanged_count = Count(wlog, "unchanged")
    /\ created_files = {wlog[k].path : k \in DOMAIN wlog}

\* a call has returned on a batch holding two different records for one path
\* and counted one created file
OncePerPathWitness ==
    /\ wpc = "returned"
    /\ file_count = 1
    /\ \E i, j \in DOMAIN data :
          /\ i < j
          /\ data[i] /= data[j]
          /\ routable(data[i]) /\ routable(data[j])
          /\ entry_file_path(data[i]) = entry_file_path(data[j])
          /\ entry_file_path(data[i]) \in created_files

Warnings(log) == Cardinality({k \in DOMAIN log : log[k] = "Warning: Missing field"})
Malformed(batch) == {k \in DOMAIN batch : missing_field(batch[k])}

\* C8: a record lacking CVE, OS name or Last updated is skipped with one
\* warning; the tree, the counts and the set of created paths after the call are
\* those of the call on the batch without such records.
MalformedRecordSkipped ==
    wpc = "returned" =>
        LET good == SelectSeq(data, LAMBDA e : ~ missing_field(e))
            r == create_json_files(good, tree0)
        IN  /\ files = r.fs.files
            /\ dirs = r.fs.dirs
            /\ file_count = r.file_count
            /\ unchanged_count = r.unchanged_count
            /\ created_files = r.created_files
            /\ returned = r.file_count
            /\ Warnings(out) = Cardinality(Malformed(data))

\* a call has returned on a batch with a malformed record in front of a record
\* it wrote
MalformedRecordSkippedWitness ==
    /\ wpc = "returned"
    /\ file_count >= 1
    /\ \E i, j \in DOMAIN data :
          /\ i < j
          /\ missing_field(data[i])
          /\ routable(data[j])
          /\ entry_file_path(data[j]) \in DOMAIN files

---------------------------------------------------------------------------
(* Properties of create_json_files over a sequence of batches, checked under
   SpecBatches *)

\* the records of the batch routed to the path
records_for(batch, path) ==
    {k \in DOMAIN batch : routable(batch[k]) /\ entry_file_path(batch[k]) = path}

\* record k of the batch comes after another record for its path, and the
\* records for that path do not all have the same content
LaterRecord(batch, k) ==
    /\ routable(batch[k])
    /\ first_index(batch, entry_file_path(batch[k])) < k
    /\ \E i, j \in records_for(batch, entry_file_path(batch[k])) : batch[i] /= batch[j]

\* the step is one iteration of the for loop, on a later record
LaterRecordStep == wpc = "loop" /\ idx' = idx + 1 /\ LaterRecord(data, idx)

\* the iteration wrote nothing, counted nothing and printed nothing
DroppedSilently ==
    /\ files' = files
    /\ file_count' = file_count
    /\ unchanged_count' = unchanged_count
    /\ created_files' = created_files
    /\ out' = out

\* the iteration wrote nothing and counted nothing, and reported an error
DroppedWithError ==
    /\ files' = files
    /\ file_count' = file_count
    /\ unchanged_count' = unchanged_count
    /\ created_files' = created_files
    /\ Len(out') > Len(out)
    /\ out'[Len(out')] = "Error processing entry"

\* the step is the return of a call
ReturnStep == wpc = "loop" /\ wpc' = "returned"

\* each path that several differing records of the batch are routed to holds,
\* if it is a file, the serialization of the first of them
FirstOfBatchKept ==
    \A k \in DOMAIN data :
        LaterRecord(data, k) =>
            LET path == entry_file_path(data[k]) IN
            path \in DOMAIN files' =>
                files'[path] = json_dumps(data[first_index(data, path)])

\* every file that a batch so far held a record for has the serialization of
\* the first record for it in the last such batch
LastBatchKept ==
    \A path \in DOMAIN files' \cap DOMAIN expected' : files'[path] = expected'[path]

\* the path can be written: it is not a directory and none of its directories
\* is a regular file
writable(path) ==
    /\ path \notin dirs
    /\ \A q \in Prefixes(path) : q /= path => q \notin DOMAIN files

\* C11 as stated: when several differing records of a batch are routed to one
\* path, the file there holds the serialization of the first after the batch
\* and each later one is dropped without any message; after any sequence of
\* batches every file holds the first record for its path in the last batch
\* that held the path.
FirstRecordWins ==
    [][/\ LaterRecordStep => DroppedSilently
       /\ ReturnStep => FirstOfBatchKept /\ LastBatchKept]_vars

\* C11: the same where the path can be written: the first record's
\* serialization is in the file after the batch and each later record is
\* dropped without any message.  Where the path is a directory, or one of its
\* directories is a regular file, no file is written there and each later
\* record is reported with "Error processing entry" like the first.  After any
\* sequence of batches every file holds the first record for its path in the
\* last batch that held the path.
FirstRecordWinsWhereWritable ==
    [][/\ LaterRecordStep =>
              IF writable(entry_file_path(data[idx]))
              THEN DroppedSilently /\ entry_file_path(data[idx]) \in DOMAIN files
              ELSE DroppedWithError /\ entry_file_path(data[idx]) \notin DOMAIN files
       /\ ReturnStep => FirstOfBatchKept /\ LastBatchKept]_vars

\* a second batch has returned with two differing records for one path, and
\* the file there, which the batch before had left with other content, holds
\* the first of them
FirstRecordWinsWitness ==
    /\ wpc = "returned"
    /\ run = 2
    /\ \E i, j \in DOMAIN data :
          /\ i < j
          /\ LaterRecord(data, j)
          /\ i = first_index(data, entry_file_path(data[j]))
          /\ entry_file_path(data[j]) \in DOMAIN files
          /\ files[entry_file_path(data[j])] = json_dumps(data[i])
          /\ json_dumps(data[i]) /= json_dumps(data[j])
          /\ entry_file_path(data[j]) \in DOMAIN tree0.files
          /\ tree0.files[entry_file_path(data[j])] = json_dumps(data[j])

---------------------------------------------------------------------------
(* Properties of parse_os_name, checked under SpecParse *)

Tok(parts, k) == IF k <= Len(parts) THEN parts[k] ELSE <<>>

\* The three-branch algorithm as the specification words it, a missing token
\* giving an empty field.
spec_normalize(name) ==
    LET t == str_split(name) IN
    IF Tok(t, 1) = <<"CentOS">> /\ Tok(t, 2) = <<"Stream">>
    THEN Returned(<<"CentOS">>, <<"Stream">> \o Tok(t, 3), Tok(t, 4))
    ELSE IF Tok(t, 1) = <<"Oracle">> /\ Tok(t, 2) = <<"Linux">>
    THEN Returned(<<"Oracle", "Linux">>, Tok(t, 3), Tok(t, 4))
    ELSE Returned(Tok(t, 1), Tok(t, 2), Tok(t, 3))

\* C6: parse_os_name returns what the three-branch algorithm gives for every
\* name, with empty fields for missing tokens, and never fails.
ParseAgreesWithSpec ==
    parsed /= NotCalled => parsed = spec_normalize(os_name)

\* parse_os_name agrees with the algorithm on every name it returns for
ParseAgreesWhenReturning ==
    (parsed /= NotCalled /\ parsed.exc = "none") => parsed = spec_normalize(os_name)

---------------------------------------------------------------------------
(* Properties of get-cve.py, checked under SpecLookup and SpecSession *)

\* the shape CVE-<year>-<sequence>, in either case of the letters
WellFormedId(text) ==
    LET parts == str_split_sep(str_upper(text), "-") IN
    Len(parts) >= 3 /\ parts[1] = <<"CVE">> /\ parts[2] /= <<>> /\ parts[3] /= <<>>

\* find_cve_file has returned / was left by an exception
FindReturned == pc \in {"got", "ret", "done"} /\ ~ HelpRun
FindRaised == pc = "crashed" /\ cve_file = NoPath
FindEnded == FindReturned \/ FindRaised
Accepted == starts_with_cve(cve_id)

\* lines 32-75: the roots in the order find_cve_file visits them
RootOrder == <<<<"nvd">>, <<"ubuntu">>, <<"debian">>, <<"ghsa">>>> \o OtherSources
DirectRoots == {<<"nvd">>, <<"ubuntu">>, <<"debian">>}
Rank(name) == CHOOSE n \in DOMAIN RootOrder : RootOrder[n] = name
RootOf(path) == RelPath(path)[1]

\* the files of root name that its matcher accepts for cve
matches_in(tree, name, yr, cve) ==
    IF name \in DirectRoots
    THEN {f \in DOMAIN tree : f = direct_path(name, yr, cve)}
    ELSE IF name = <<"ghsa">>
    THEN {f \in DOMAIN tree : /\ Len(f) >= 3
                              /\ f[1] = name
                              /\ ends_with_json(f[Len(f)])
                              /\ ghsa_inspect(tree[f], cve) = "match"}
    ELSE {f \in DOMAIN tree : /\ Len(f) >= 2
                              /\ f[1] = name
                              /\ ends_with_json(f[Len(f)])
                              /\ versioned_inspect(tree[f], cve) = "match"}

HoldsMatch(name) == matches_in(repo, name, cve_year, cve_id) /= {}
BestRoot ==
    RootOrder[CHOOSE n \in DOMAIN RootOrder :
                 /\ HoldsMatch(RootOrder[n])
                 /\ \A m \in 1..(n - 1) : ~ HoldsMatch(RootOrder[m])]

FoundInBestRoot ==
    /\ cve_file /= NoPath
    /\ RelPath(cve_file) \in matches_in(repo, BestRoot, cve_year, cve_id)
    /\ \A q \in probes : Rank(q[1]) <= Rank(BestRoot)

\* C2: with no source filter, when some root holds a match find_cve_file
\* returns a location matched in the first such root of the order nvd, ubuntu,
\* debian, ghsa, alpine, amazon, oracle, photon, redhat, suse, and has looked
\* at no root after it.
FirstMatchWins ==
    (FindEnded /\ source = None /\ WellFormedId(cve_arg)
               /\ \E n \in DOMAIN RootOrder : HoldsMatch(RootOrder[n]))
        => (FindReturned /\ FoundInBestRoot)

\* the same for the searches that no exception leaves
FirstMatchWinsUnlessRaised ==
    (FindReturned /\ source = None /\ Accepted /\ \E n \in DOMAIN RootOrder : HoldsMatch(RootOrder[n]))
        => FoundInBestRoot

\* C3: for a cve_id that is not of the shape CVE-<year>-<sequence>,
\* find_cve_file reports the invalid format and returns None at once, having
\* looked at nothing in the file system.
MalformedIdRejected ==
    (pc \notin {"idle", "main", "find"} /\ ~ HelpRun /\ ~ WellFormedId(cve_arg))
        => /\ FindReturned
           /\ cve_file = NoPath
           /\ probes = {}
           /\ stdout /= <<>> /\ stdout[1] = "Error: Invalid CVE ID format"

\* the ids the code does reject are rejected before any probe
RejectedWithoutProbe ==
    (pc \notin {"idle", "main", "find"} /\ ~ HelpRun /\ ~ Accepted)
        => /\ FindReturned
           /\ cve_file = NoPath
           /\ probes = {}
           /\ stdout /= <<>> /\ stdout[1] = "Error: Invalid CVE ID format"

\* the roots a search with this source filter covers
Searched ==
    IF source = None THEN SeqRange(RootOrder)
    ELSE {name \in SeqRange(RootOrder) : name = str_lower(source)}

\* C5: no candidate file, unparsable or of an unexpected shape, makes
\* find_cve_file raise; the search goes on, and when a root it covers holds a
\* well-formed matching file a location is returned.
MalformedFileNeverAborts ==
    /\ WellFormedId(cve_arg) => ~ FindRaised
    /\ (FindEnded /\ WellFormedId(cve_arg) /\ \E name \in Searched : HoldsMatch(name))
           => (FindReturned /\ cve_file /= NoPath)

\* files that fail to parse as JSON are skipped with a warning
UnparsableFileSkipped ==
    (FindEnded /\ \E q \in probes : q \in DOMAIN repo /\ repo[q].kind = "invalid"
                                     /\ q[1] \notin DirectRoots)
        => \E n \in DOMAIN stdout : stdout[n] = "Warning: Could not parse"

\* C7: the _source label of a loaded record is the label of the root its
\* location was found in.
LabelNamesRoot ==
    cve_data.loaded => cve_data.label = label_of(RootOf(cve_file), cve_file)

\* C9: with a source filter, find_cve_file looks only below the root the
\* filter names and returns a location below it or None; it does not raise,
\* and a filter naming no root gives None with nothing looked at.
FilterRestrictsSearch ==
    (FindEnded /\ source /= None /\ WellFormedId(cve_arg))
        => /\ FindReturned
           /\ \A q \in probes : q[1] = str_lower(source)
           /\ cve_file /= NoPath => RootOf(cve_file) = str_lower(source)
           /\ Searched = {} => (cve_file = NoPath /\ probes = {})

\* the same for the searches that no exception leaves
FilterRestrictsUnlessRaised ==
    (FindReturned /\ source /= None /\ Accepted)
        => /\ \A q \in probes : q[1] = str_lower(source)
           /\ cve_file /= NoPath => RootOf(cve_file) = str_lower(source)
           /\ Searched = {} => (cve_file = NoPath /\ probes = {})

Failures == {"not found", "invalid input", "load failed"}
Errors(log) == SelectSeq(log, LAMBDA m : m \notin {"Warning: Could not parse", "json"})

====
